---- MODULE Spec2Model ----
(***************************************************************************)
(* A model of src/engine/network/utils/feed.ts: the FeedLoader state       *)
(* machine (live buffer, historical cursor, parent side map, deferral      *)
(* timers, subscription bookkeeping) and the relay hint functions          *)
(* (isShareableRelay, relayIsLowQuality, selectHints, mergeHints).         *)
(***************************************************************************)
EXTENDS Integers, Sequences, FiniteSets, TLC

(***************************************************************************)
(* Bounds of the model.                                                    *)
(***************************************************************************)
\* a load() resumes at most MaxDrift seconds after construction
MaxDrift == 4
\* load() is called at most MaxLoads times
MaxLoads == 1
\* the largest n passed to load(n), and the largest batch a relay delivers
MaxTake == 2
\* the largest number of candidate lists handed to a hint generator
MaxGroups == 2
\* the longest candidate list
MaxHints == 3
\* the largest limit passed to selectHints
MaxLimit == 2

(***************************************************************************)
(* Generic list helpers (ramda).                                           *)
(***************************************************************************)
RECURSIVE uniqAcc(_, _)
uniqAcc(s, acc) ==
  IF s = <<>> THEN acc
  ELSE IF \E i \in 1..Len(acc) : acc[i] = Head(s)
       THEN uniqAcc(Tail(s), acc)
       ELSE uniqAcc(Tail(s), Append(acc, Head(s)))

\* a uniqBy that drops nothing
uniqByKeepAll(s) == s

\* uniqBy(prop("id"), s) on a list of entries identified by their id: the
\* first occurrence of every id is kept, in order
uniqBy(s) == uniqAcc(s, <<>>)

\* a close handler that forgets every handle
withoutAny(x, s) == <<>>

\* without([x], s)
without(x, s) == SelectSeq(s, LAMBDA y : y # x)

Range(s) == {s[i] : i \in 1..Len(s)}

(***************************************************************************)
(* Events.  An event is identified by its id, the index into Events.  The  *)
(* relays are untrusted: the universe holds a reaction, a reply to that    *)
(* reaction, a reply to a note, two events older than the filter's time    *)
(* span, and an event that names itself as its parent.  created_at is in   *)
(* seconds.                                                                *)
(***************************************************************************)
Events == <<
  [kind |-> 1, created_at |-> 10, reply |-> 0, muted |-> FALSE],   \* 1: a root note
  [kind |-> 1, created_at |-> 8,  reply |-> 3, muted |-> FALSE],   \* 2: a reply to 3
  [kind |-> 7, created_at |-> 10, reply |-> 1, muted |-> FALSE],   \* 3: a reaction to 1
  [kind |-> 1, created_at |-> 3,  reply |-> 0, muted |-> FALSE],   \* 4: an old root note
  [kind |-> 1, created_at |-> 1,  reply |-> 5, muted |-> FALSE],   \* 5: older, names itself as parent
  [kind |-> 1, created_at |-> 8,  reply |-> 1, muted |-> FALSE]    \* 6: a reply to 1
>>

Ids == DOMAIN Events

noteKinds == {1}
reactionKinds == {7}

findReplyId(e) == Events[e].reply
isEventMuted(e) == Events[e].muted

\* now() when the loader is constructed, in seconds
since == 10
\* guessFilterDelta(filters), in seconds
FilterDelta == 5
\* setTimeout(..., 1500) and setTimeout(..., 4000), in ticks of 500ms
OrphanDelay == 3
AncientDelay == 8

VARIABLES
  opts,      \* FeedOpts: shouldDefer, shouldListen, shouldHideReplies, shouldLoadParents
  stopped,   \* this.stopped
  subs,      \* this.subs: the tracked handles, in insertion order
  opened,    \* the handles the transport holds open
  buffer,    \* this.buffer: the live buffer
  notes,     \* this.notes: the top-level feed
  parents,   \* the ids held by this.parents
  replies,   \* replies[id]: the reply list of the object this.parents holds for id
  deferred,  \* this.deferred
  timers,    \* pending setTimeout callbacks: [evs, left, why], left in ticks
  loading,   \* load() calls suspended at "await this.ready"
  nLoads,    \* number of load() calls made
  hung,      \* the thread is inside a loop that never ends
  history,   \* what the step just taken did besides: the drops of its chunk
             \* construction, "restop" when a stop() after the first closed a handle
  groups,    \* the candidate lists a hint generator was given
  quality,   \* pool.get(url).meta.quality in tenths, for the relays the pool knows
  userRelays,\* getUserRelayUrls(RelayMode.Read)
  called,    \* the hint generator that ran last: "none", "chain" or "merge"
  limit,     \* the limit it passed to selectHints (0: none given)
  hints,     \* the candidate sequence it passed to selectHints
  result     \* what selectHints returned

feedVars == <<opts, stopped, subs, opened, buffer, notes, parents, replies,
              deferred, timers, loading, nLoads, hung, history>>
hintVars == <<groups, quality, userRelays, called, limit, hints, result>>
vars == <<feedVars, hintVars>>

\* now(), t seconds after construction
now(t) == since + t

created_at(e) == Events[e].created_at
kind(e) == Events[e].kind

(***************************************************************************)
(* sortBy(e => -e.created_at, s): a stable sort, newest first.             *)
(***************************************************************************)
RECURSIVE insertDesc(_, _)
insertDesc(e, s) ==
  IF s = <<>> THEN <<e>>
  ELSE IF created_at(Head(s)) >= created_at(e)
       THEN <<Head(s)>> \o insertDesc(e, Tail(s))
       ELSE <<e>> \o s

RECURSIVE sortByCreatedDesc(_)
sortByCreatedDesc(s) ==
  IF s = <<>> THEN <<>>
  ELSE LET n == Len(s) IN insertDesc(s[n], sortByCreatedDesc(SubSeq(s, 1, n - 1)))

\* discardEvents
discardEvents(events) ==
  SelectSeq(events, LAMBDA e :
    ~isEventMuted(e) /\ ~(opts.shouldHideReplies /\ findReplyId(e) # 0))

(***************************************************************************)
(* buildFeedChunk.  walk is the while(true) loop of the first map: it      *)
(* climbs from e while the parent is in the side map, pushing every        *)
(* note-kind event into its parent's replies.  The side map does not       *)
(* change during the loop, so the loop never ends exactly when it comes    *)
(* back to an event it has already stood on.                               *)
(***************************************************************************)
\* a loop that stops at the immediate parent
walkOneHop(e, rep, visited) ==
  LET parentId == findReplyId(e) IN
  IF parentId = 0 \/ parentId \notin parents
  THEN [top |-> e, rep |-> rep, hung |-> FALSE]
  ELSE [top |-> parentId,
        rep |-> IF kind(e) \in noteKinds /\ e \notin Range(rep[parentId])
                THEN [rep EXCEPT ![parentId] = Append(@, e)]
                ELSE rep,
        hung |-> FALSE]

\* a loop that pushes without looking whether the parent already holds the event
RECURSIVE walkPushesAgain(_, _, _)
walkPushesAgain(e, rep, visited) ==
  LET parentId == findReplyId(e) IN
  IF parentId = 0 \/ parentId \notin parents
  THEN [top |-> e, rep |-> rep, hung |-> FALSE]
  ELSE LET rep2 == IF kind(e) \in noteKinds
                   THEN [rep EXCEPT ![parentId] = Append(@, e)]
                   ELSE rep
       IN IF parentId \in visited \cup {e}
          THEN [top |-> parentId, rep |-> rep2, hung |-> TRUE]
          ELSE walkPushesAgain(parentId, rep2, visited \cup {e})

RECURSIVE walk(_, _, _)
walk(e, rep, visited) ==
  LET parentId == findReplyId(e) IN
  IF parentId = 0 \/ parentId \notin parents
  THEN [top |-> e, rep |-> rep, hung |-> FALSE]
  ELSE LET rep2 == IF kind(e) \in noteKinds /\ e \notin Range(rep[parentId])
                   THEN [rep EXCEPT ![parentId] = Append(@, e)]
                   ELSE rep
       IN IF parentId \in visited \cup {e}
          THEN [top |-> parentId, rep |-> rep2, hung |-> TRUE]
          ELSE walk(parentId, rep2, visited \cup {e})

\* the events the loop from e stands on, e first: the value of the variable e
\* at the top of each iteration
RECURSIVE chain(_, _)
chain(e, visited) ==
  LET parentId == findReplyId(e) IN
  IF parentId = 0 \/ parentId \notin parents \/ parentId \in visited \cup {e}
  THEN <<e>>
  ELSE <<e>> \o chain(parentId, visited \cup {e})

\* the first map over the batch, left to right, each walk seeing the reply
\* lists the earlier walks left
RECURSIVE mapWalk(_, _, _)
mapWalk(evs, rep, acc) ==
  IF evs = <<>> THEN [tops |-> acc, rep |-> rep, hung |-> FALSE]
  ELSE LET w == walk(Head(evs), rep, {}) IN
       IF w.hung THEN [tops |-> acc, rep |-> w.rep, hung |-> TRUE]
       ELSE mapWalk(Tail(evs), w.rep, Append(acc, w.top))

\* a buildFeedChunk whose filter lets reactions through
buildFeedChunkKeepReactions(evs) ==
  LET seen == Range(notes)
      m == mapWalk(evs, replies, <<>>)
      kept == SelectSeq(m.tops, LAMBDA e : e \notin seen)
      rep2 == [i \in Ids |-> IF i \in Range(kept) THEN uniqBy(m.rep[i]) ELSE m.rep[i]]
  IN [chunk |-> sortByCreatedDesc(uniqBy(kept)), rep |-> rep2, hung |-> m.hung]

\* a buildFeedChunk that also offers every parent of the side map
buildFeedChunkWithParents(evs) ==
  LET seen == Range(notes)
      m == mapWalk(evs, replies, <<>>)
      all == m.tops \o sortByCreatedDesc(SelectSeq(<<1, 2, 3, 4, 5, 6>>, LAMBDA i : i \in parents))
      kept == SelectSeq(all, LAMBDA e : e \notin seen /\ kind(e) \notin reactionKinds)
      rep2 == [i \in Ids |-> IF i \in Range(kept) THEN uniqBy(m.rep[i]) ELSE m.rep[i]]
  IN [chunk |-> sortByCreatedDesc(uniqBy(kept)), rep |-> rep2, hung |-> m.hung]

buildFeedChunk(evs) ==
  LET seen == Range(notes)
      m == mapWalk(evs, replies, <<>>)
      kept == SelectSeq(m.tops, LAMBDA e : e \notin seen /\ kind(e) \notin reactionKinds)
      rep2 == [i \in Ids |-> IF i \in Range(kept) THEN uniqBy(m.rep[i]) ELSE m.rep[i]]
  IN [chunk |-> sortByCreatedDesc(uniqBy(kept)), rep |-> rep2, hung |-> m.hung]

\* addToFeed: the feed and reply lists after committing evs
addToFeed(evs) ==
  LET c == buildFeedChunk(evs) IN
  IF c.hung THEN [notes |-> notes, rep |-> c.rep, hung |-> TRUE]
  ELSE [notes |-> uniqBy(notes \o c.chunk), rep |-> c.rep, hung |-> FALSE]

\* what buildFeedChunk(evs) drops: a candidate already in the feed ("seen"),
\* a candidate two events of the batch resolve to ("twice"), a reaction of
\* the batch ("reaction"), a reaction reached as an ancestor ("ancestor")
\* and what it does not push: a note-kind event of a walked chain that an
\* earlier commit left in its parent's reply list ("again")
dropsOf(evs) ==
  LET m == mapWalk(evs, replies, <<>>)
      n == Len(m.tops)
  IN IF m.hung THEN {}
     ELSE (IF \E i \in 1..n : m.tops[i] \in Range(notes) THEN {"seen"} ELSE {})
          \cup (IF \E i, j \in 1..n : i < j /\ m.tops[i] = m.tops[j] THEN {"twice"} ELSE {})
          \cup (IF \E i \in 1..n : m.tops[i] = evs[i] /\ kind(evs[i]) \in reactionKinds
                THEN {"reaction"} ELSE {})
          \cup (IF \E i \in 1..n : m.tops[i] # evs[i] /\ kind(m.tops[i]) \in reactionKinds
                THEN {"ancestor"} ELSE {})
          \cup (IF \E i \in 1..n : LET ch == chain(evs[i], {}) IN
                   \E j \in 1..(Len(ch) - 1) :
                     kind(ch[j]) \in noteKinds /\ ch[j] \in Range(replies[ch[j + 1]])
                THEN {"again"} ELSE {})

Commit(evs) ==
  LET r == addToFeed(evs) IN
  /\ notes' = r.notes
  /\ replies' = r.rep
  /\ hung' = r.hung
  /\ history' = dropsOf(evs)

(***************************************************************************)
(* Deferral passes.  Each returns the events that go on and the timer it   *)
(* sets; a timer whose list is empty commits nothing when it fires         *)
(* (addToFeed([]) leaves every field as it is) and is not recorded.        *)
(***************************************************************************)
isOrphan(e) == findReplyId(e) # 0 /\ findReplyId(e) \notin parents

deferOrphans(evs) ==
  IF ~opts.shouldLoadParents THEN [ok |-> evs, defer |-> <<>>]
  ELSE [ok |-> SelectSeq(evs, LAMBDA e : ~isOrphan(e)),
        defer |-> SelectSeq(evs, LAMBDA e : isOrphan(e))]

isAncient(e, t) == created_at(e) < now(t) - FilterDelta

deferAncient(evs, t) ==
  [ok |-> SelectSeq(evs, LAMBDA e : ~isAncient(e, t)),
   defer |-> SelectSeq(evs, LAMBDA e : isAncient(e, t))]

setTimeout(ts, evs, delay, why) ==
  IF evs = <<>> THEN ts ELSE Append(ts, [evs |-> evs, left |-> delay, why |-> why])

(***************************************************************************)
(* Init: the state the constructor leaves.  LiveSub is the handle of the   *)
(* live subscription (when shouldListen), CursorSub the one                *)
(* cursor.load(50) returns, TakeSub one that cursor.take(n) may return.    *)
(***************************************************************************)
LiveSub == "live"
CursorSub == "cursor"
TakeSub == "take"
Handles == {LiveSub, CursorSub, TakeSub}

\* no hint generator has run
HintsIdle ==
  /\ groups = <<>>
  /\ quality = <<>>
  /\ userRelays = <<>>
  /\ called = "none"
  /\ limit = 0
  /\ hints = <<>>
  /\ result = <<>>

Init ==
  /\ opts \in [shouldDefer : BOOLEAN, shouldListen : BOOLEAN,
               shouldHideReplies : BOOLEAN, shouldLoadParents : BOOLEAN]
  /\ stopped = FALSE
  /\ subs = IF opts.shouldListen THEN <<LiveSub, CursorSub>> ELSE <<CursorSub>>
  /\ opened = Range(subs)
  /\ buffer = <<>>
  /\ notes = <<>>
  /\ parents = {}
  /\ replies = [i \in Ids |-> <<>>]
  /\ deferred = <<>>
  /\ timers = <<>>
  /\ loading = <<>>
  /\ nLoads = 0
  /\ hung = FALSE
  /\ history = {}
  /\ HintsIdle

\* the handles the transport can hand out, and the one it hands out next
FreeSubs == Handles \ (opened \cup {LiveSub, CursorSub})
NewSub == CHOOSE h \in FreeSubs : TRUE

\* addSubs: the handle is pushed onto this.subs
addSubs(tracked, h) == Append(tracked, h)

\* sequences of distinct events of S, of length 1..n
Batches(S, n) ==
  {s \in UNION {[1..k -> S] : k \in 1..n} : \A i, j \in 1..Len(s) : i # j => s[i] # s[j]}

\* what the cursor can hand out, and what the live subscription can deliver
Historical == {e \in Ids : created_at(e) <= since}
Live == {e \in Ids : created_at(e) >= since}

\* loadParents has asked for id: an event that survives discardEvents and
\* replies to id has reached the cursor's or the live subscription's onEvent
\* (received by the cursor, such an event changes nothing else)
requested(id) ==
  /\ opts.shouldLoadParents
  /\ \E e \in Ids : findReplyId(e) = id /\ discardEvents(<<e>>) # <<>>

(***************************************************************************)
(* Actions.                                                                *)
(***************************************************************************)
\* a live delivery that commits its batch to the feed as it arrives
LiveEventCommits ==
  /\ ~hung
  /\ LiveSub \in opened
  /\ \E batch \in Batches(Live \ Range(buffer), MaxTake) :
       /\ buffer' = buffer \o discardEvents(batch)
       /\ Commit(discardEvents(batch))
  /\ UNCHANGED <<hintVars, opts, stopped, subs, opened, parents, deferred,
                 timers, loading, nLoads>>

\* The live subscription delivers a batch (constructor, onEvent of subscribe);
\* a subscription delivers an event once, so none that still waits in the buffer
LiveEvent ==
  /\ ~hung
  /\ LiveSub \in opened
  /\ \E batch \in Batches(Live \ Range(buffer), MaxTake) :
       buffer' = buffer \o discardEvents(batch)
  /\ UNCHANGED <<hintVars, opts, stopped, subs, opened, notes, parents, replies, deferred,
                 timers, loading, nLoads, hung>>
  /\ history' = {}

\* A relay answers a parent fetch (loadParents, onEvent of load)
ParentEvent ==
  /\ ~hung
  /\ \E id \in Ids :
       /\ requested(id)
       /\ discardEvents(<<id>>) # <<>>
       /\ parents' = parents \cup {id}
       /\ replies' = [replies EXCEPT ![id] = <<>>]
  /\ UNCHANGED <<hintVars, opts, stopped, subs, opened, buffer, notes, deferred, timers,
                 loading, nLoads, hung>>
  /\ history' = {}

\* A handle closes and its close notification runs (addSubs, the "close" handler)
SubClose ==
  /\ ~hung
  /\ \E h \in Range(subs) :
       /\ subs' = without(h, subs)
       /\ opened' = opened \ {h}
  /\ UNCHANGED <<hintVars, opts, stopped, buffer, notes, parents, replies, deferred, timers,
                 loading, nLoads, hung>>
  /\ history' = {}

\* the loop of stop() over the array this.subs held when it began: closing a
\* handle runs its "close" handler, which takes it out of this.subs
RECURSIVE closeEach(_, _)
closeEach(todo, tracked) ==
  IF todo = <<>> THEN tracked
  ELSE closeEach(Tail(todo), without(Head(todo), tracked))

\* stop(): every tracked handle is closed, and each close runs that handle's
\* "close" handler before it returns, which takes the handle out of this.subs
Stop ==
  /\ ~hung
  /\ stopped' = TRUE
  /\ opened' = opened \ Range(subs)
  /\ subs' = closeEach(subs, subs)
  /\ history' = IF stopped /\ Range(subs) \cap opened # {}
                THEN {"restop"} ELSE {}
  /\ UNCHANGED <<hintVars, opts, buffer, notes, parents, replies, deferred, timers,
                 loading, nLoads, hung>>

\* load(n) is called and suspends at "await this.ready"
LoadCall ==
  /\ ~hung
  /\ nLoads < MaxLoads
  /\ loading = <<>>
  /\ loading' = Append(loading, [afterStop |-> stopped])
  /\ nLoads' = nLoads + 1
  /\ UNCHANGED <<hintVars, opts, stopped, subs, opened, buffer, notes, parents, replies,
                 deferred, timers, hung>>
  /\ history' = {}

\* What load(n) does with the events cursor.take(n) hands it at time t: the
\* list it passes to addToFeed and the lists its two timers hold
loadPasses(taken, t) ==
  LET evs == discardEvents(taken)
      o == deferOrphans(evs \o deferred)
      a == deferAncient(o.ok, t)
  IN IF opts.shouldDefer
     THEN [commit |-> a.ok, orphans |-> o.defer, ancient |-> a.defer]
     ELSE [commit |-> evs, orphans |-> <<>>, ancient |-> <<>>]

\* this.ready has resolved and the oldest suspended load(n) resumes:
\* cursor.take(n), discardEvents, addSubs, the deferral passes, addToFeed.
\* t is what the wall clock reads then, in seconds since construction; only
\* deferAncient reads it.
Load ==
  /\ ~hung
  /\ loading # <<>>
  /\ loading' = Tail(loading)
  /\ \E t \in 0..MaxDrift : \E taken \in {<<>>} \cup Batches(Historical, MaxTake), k \in 0..1 :
       LET p == loadPasses(taken, t) IN
       /\ (t > 0 => opts.shouldDefer)
       /\ (k = 1 => FreeSubs # {})
       /\ subs' = IF k = 1 THEN addSubs(subs, NewSub) ELSE subs
       /\ opened' = IF k = 1 THEN opened \cup {NewSub} ELSE opened
       /\ deferred' = <<>>
       /\ timers' = setTimeout(setTimeout(timers, p.orphans, OrphanDelay, "orphans"),
                               p.ancient, AncientDelay, "ancient")
       /\ Commit(p.commit)
  /\ UNCHANGED <<hintVars, opts, stopped, buffer, parents, nLoads>>

\* loadBuffer(): the buffer becomes [] when addToFeed has returned
LoadBuffer ==
  /\ ~hung
  /\ Commit(buffer)
  /\ buffer' = IF addToFeed(buffer).hung THEN buffer ELSE <<>>
  /\ UNCHANGED <<hintVars, opts, stopped, subs, opened, parents, deferred, timers,
                 loading, nLoads>>

\* the timer that is due fires: () => this.addToFeed(defer).  Timers that are
\* due together fire in the order they were set
TimerDue(i) ==
  /\ timers[i].left = 0
  /\ \A j \in 1..(i - 1) : timers[j].left > 0

Timer ==
  /\ ~hung
  /\ \E i \in 1..Len(timers) :
       /\ TimerDue(i)
       /\ Commit(timers[i].evs)
       /\ timers' = SubSeq(timers, 1, i - 1) \o SubSeq(timers, i + 1, Len(timers))
  /\ UNCHANGED <<hintVars, opts, stopped, subs, opened, buffer, parents, deferred,
                 loading, nLoads>>

\* time passes until the next timer is due (delays count 500ms units); a
\* timer that is due fires before the time moves on
Tick ==
  /\ ~hung
  /\ timers # <<>>
  /\ \A i \in 1..Len(timers) : timers[i].left > 0
  /\ LET d == CHOOSE d \in {timers[i].left : i \in 1..Len(timers)} :
                 \A i \in 1..Len(timers) : d <= timers[i].left
     IN timers' = [i \in 1..Len(timers) |-> [timers[i] EXCEPT !.left = @ - d]]
  /\ UNCHANGED <<hintVars, opts, stopped, subs, opened, buffer, notes, parents, replies,
                 deferred, loading, nLoads, hung>>
  /\ history' = {}

Next ==
  \/ LiveEvent
  \/ ParentEvent
  \/ SubClose
  \/ Stop
  \/ LoadCall
  \/ Load
  \/ LoadBuffer
  \/ Timer
  \/ Tick

Spec == Init /\ [][Next]_vars

(***************************************************************************)
(* The commits alone, with a second load(n): a loader that fetches parents *)
(* and commits what it takes at once.  The cursor of several relays can    *)
(* hand out an event it has handed out before.                             *)
(***************************************************************************)
MaxReloads == 2

LoadCallAgain ==
  /\ ~hung
  /\ nLoads < MaxReloads
  /\ loading = <<>>
  /\ loading' = Append(loading, [afterStop |-> stopped])
  /\ nLoads' = nLoads + 1
  /\ UNCHANGED <<hintVars, opts, stopped, subs, opened, buffer, notes, parents, replies,
                 deferred, timers, hung>>
  /\ history' = {}

InitChunks ==
  /\ Init
  /\ opts.shouldLoadParents
  /\ ~opts.shouldHideReplies
  /\ ~opts.shouldDefer

NextChunks ==
  \/ LiveEvent
  \/ ParentEvent
  \/ LoadCallAgain
  \/ Load
  \/ LoadBuffer

SpecChunks == InitChunks /\ [][NextChunks]_vars

(***************************************************************************)
(* Relay hints.  A relay url is a string; the matches of isShareableRelay  *)
(* are spelled out character by character.                                 *)
(***************************************************************************)
\* s[i - 1], and "" past the end
charAt(s, i) == IF 1 <= i /\ i <= Len(s) THEN SubSeq(s, i, i) ELSE ""

\* s.slice(n)
slice(s, n) == SubSeq(s, n + 1, Len(s))

\* p occurs in s at position i
matchesAt(s, p, i) == i + Len(p) - 1 <= Len(s) /\ SubSeq(s, i, i + Len(p) - 1) = p

startsWith(s, p) == matchesAt(s, p, 1)

includes(s, p) == \E i \in 1..Len(s) : matchesAt(s, p, i)

\* s.match(/p/g).length for a literal p: the matches found left to right,
\* each search resuming after the previous match
RECURSIVE countFrom(_, _, _)
countFrom(s, p, i) ==
  IF i > Len(s) THEN 0
  ELSE IF matchesAt(s, p, i) THEN 1 + countFrom(s, p, i + Len(p))
       ELSE countFrom(s, p, i + 1)

isDigit(c) == c \in {"0", "1", "2", "3", "4", "5", "6", "7", "8", "9"}
\* the characters "." does not match
isLineEnd(c) == c \in {"\n", "\r"}
\* \s
isSpace(c) == c \in {" ", "\t", "\n", "\r"}

\* the positions right after a match of \d+ that starts at i
afterDigits(s, i) ==
  {j \in (i + 1)..(Len(s) + 1) : \A k \in i..(j - 1) : isDigit(charAt(s, k))}

\* /^wss?:\/\/.+\..+/
isWebsocketUrl(url) ==
  \E proto \in {"ws://", "wss://"} :
    /\ startsWith(url, proto)
    /\ \E i \in (Len(proto) + 2)..(Len(url) - 1) :
         /\ charAt(url, i) = "."
         /\ \A j \in (Len(proto) + 1)..(i - 1) : ~isLineEnd(charAt(url, j))
         /\ ~isLineEnd(charAt(url, i + 1))

\* /:\d+/
hasPort(s) ==
  \E i \in 1..(Len(s) - 1) : charAt(s, i) = ":" /\ isDigit(charAt(s, i + 1))

\* /\d+\.\d+\.\d+\.\d+/
hasRawIp(s) ==
  \E i \in 1..Len(s) :
    \E a \in afterDigits(s, i) :
      /\ charAt(s, a) = "."
      /\ \E b \in afterDigits(s, a + 1) :
           /\ charAt(s, b) = "."
           /\ \E c \in afterDigits(s, b + 1) :
                /\ charAt(s, c) = "."
                /\ afterDigits(s, c + 1) # {}

\* a url that is a websocket url with a dot is shareable whatever else it is
isShareableRelayAnyScheme(url) == isWebsocketUrl(url)

isShareableRelay(url) ==
  /\ isWebsocketUrl(url)
  /\ countFrom(url, "://", 1) = 1
  /\ ~\E i \in 1..Len(url) : isSpace(charAt(url, i))
  /\ ~includes(url, "%")
  /\ startsWith(url, "wss://") /\ Len(url) >= 7 /\ ~isLineEnd(charAt(url, 7))
  /\ ~hasPort(slice(url, 6))
  /\ ~hasRawIp(slice(url, 6))
  /\ ~includes(slice(url, 6), "/npub")

\* quality is kept in tenths: 0.6 is 6
LowQualityBelow == 6

\* a relay is low quality when its quality is at most 0.6
relayIsLowQualityInclusive(url) ==
  url \in DOMAIN quality /\ quality[url] <= LowQualityBelow

\* a relay the pool does not know has no quality, and undefined < 0.6 is false
relayIsLowQuality(url) ==
  url \in DOMAIN quality /\ quality[url] < LowQualityBelow

(***************************************************************************)
(* The relay urls of the model.                                            *)
(***************************************************************************)
\* urls that appear in candidate lists
Advertised == {"wss://a.b", "wss://c.d", "wss://e.f", "ws://a.b"}
\* the relays the pool may hold a quality for, and the qualities it may hold
Pooled == {"wss://a.b", "wss://c.d"}
Qualities == {5, 6}
QualityMaps == UNION {[S -> Qualities] : S \in SUBSET Pooled}
\* what the user's read relays may be
UserRelayLists ==
  { <<>>,
    <<"wss://a.b:80", "wss://c.d", "wss://1.2.3.4", "wss://a.b/npub1",
      "wss://ab", "wss://a.b wss://c.d", "wss://a%20b.c", "wss://e.f://g.h">> }
\* env.DEFAULT_RELAYS
DEFAULT_RELAYS == <<"wss://e.f">>
\* getSetting("relay_limit")
relay_limit == 2

\* isShareableRelay on the urls of the model, worked out once
AllUrls == Advertised \cup UNION {Range(l) : l \in UserRelayLists} \cup Range(DEFAULT_RELAYS)
ShareableUrls == {url \in AllUrls : isShareableRelay(url)}

(***************************************************************************)
(* selectHints.  scan is the for loop over                                 *)
(* chain(hints, getUserRelayUrls(Read), DEFAULT_RELAYS); a limit that was  *)
(* not given (null, or 0) is replaced by the relay_limit setting.          *)
(***************************************************************************)
\* a scan that does not skip the urls that are not shareable
RECURSIVE scanUnfiltered(_, _, _, _, _)
scanUnfiltered(urls, seen, ok, bad, lim) ==
  IF urls = <<>> THEN [ok |-> ok, bad |-> bad]
  ELSE LET url == Head(urls) IN
    IF url \in seen THEN scanUnfiltered(Tail(urls), seen, ok, bad, lim)
    ELSE LET ok2 == IF relayIsLowQuality(url) THEN ok ELSE Append(ok, url)
             bad2 == IF relayIsLowQuality(url) THEN Append(bad, url) ELSE bad
         IN IF Len(ok2) > lim THEN [ok |-> ok2, bad |-> bad2]
            ELSE scanUnfiltered(Tail(urls), seen \cup {url}, ok2, bad2, lim)

RECURSIVE scan(_, _, _, _, _)
scan(urls, seen, ok, bad, lim) ==
  IF urls = <<>> THEN [ok |-> ok, bad |-> bad]
  ELSE LET url == Head(urls) IN
    IF url \in seen THEN scan(Tail(urls), seen, ok, bad, lim)
    ELSE IF url \notin ShareableUrls THEN scan(Tail(urls), seen \cup {url}, ok, bad, lim)
    ELSE LET ok2 == IF relayIsLowQuality(url) THEN ok ELSE Append(ok, url)
             bad2 == IF relayIsLowQuality(url) THEN Append(bad, url) ELSE bad
         IN IF Len(ok2) > lim THEN [ok |-> ok2, bad |-> bad2]
            ELSE scan(Tail(urls), seen \cup {url}, ok2, bad2, lim)

\* the limit selectHints works with
orDefault(lim) == IF lim = 0 THEN relay_limit ELSE lim

\* the sequence selectHints scans
chained(hs) == hs \o userRelays \o DEFAULT_RELAYS

\* a selectHints that never falls back on the low-quality urls
selectHintsHealthyOnly(hs, lim) ==
  LET r == scan(chained(hs), {}, <<>>, <<>>, orDefault(lim))
  IN SubSeq(r.ok, 1, IF Len(r.ok) < orDefault(lim) THEN Len(r.ok) ELSE orDefault(lim))

selectHints(hs, lim) ==
  LET r == scan(chained(hs), {}, <<>>, <<>>, orDefault(lim))
      all == r.ok \o r.bad
  IN SubSeq(all, 1, IF Len(all) < orDefault(lim) THEN Len(all) ELSE orDefault(lim))

(***************************************************************************)
(* mergeHints.  Scores are kept as whole numbers of 1/ScoreUnit, which is  *)
(* exact for 1 / (i + 1) / hints.length with lists of up to four urls.     *)
(* The entries are in the order the urls were first scored (the order of   *)
(* Object.entries).                                                        *)
(***************************************************************************)
ScoreUnit == 144

addScore(scores, hint, sc) ==
  IF \E k \in 1..Len(scores) : scores[k].hint = hint
  THEN [k \in 1..Len(scores) |->
          IF scores[k].hint = hint
          THEN [scores[k] EXCEPT !.score = @ + sc, !.count = @ + 1]
          ELSE scores[k]]
  ELSE Append(scores, [hint |-> hint, score |-> sc, count |-> 1])

\* hints.forEach((hint, i) => ...), from the entry at index i on
RECURSIVE scoreGroup(_, _, _)
scoreGroup(hs, i, scores) ==
  IF i >= Len(hs) THEN scores
  ELSE scoreGroup(hs, i + 1,
         addScore(scores, hs[i + 1], ScoreUnit \div ((i + 1) * Len(hs))))

RECURSIVE scoreGroups(_, _)
scoreGroups(gs, scores) ==
  IF gs = <<>> THEN scores
  ELSE scoreGroups(Tail(gs), scoreGroup(Head(gs), 0, scores))

(***************************************************************************)
(* The weight log(G / count) + log1p(exp(score - count)) is compared       *)
(* through its exponential G * (1 + exp(score - count)) / count, which     *)
(* orders the entries the same way.  exp is computed in fixed point, to    *)
(* six decimals, for arguments -n / ScoreUnit.                             *)
(***************************************************************************)
Scale == 1000000
\* exp(-1), exp(-2), exp(-3), exp(-4)
ExpNegWhole == <<367879, 135335, 49787, 18316>>
\* the terms of the series for exp(-m / ScoreUnit), m < ScoreUnit
ExpTerms == 10
\* every count up to 4 divides it
CountUnit == 12

RECURSIVE expSeries(_, _, _, _)
expSeries(m, k, term, acc) ==
  IF k > ExpTerms THEN acc
  ELSE LET next == (term * m) \div (ScoreUnit * k)
       IN expSeries(m, k + 1, next, IF k % 2 = 1 THEN acc - next ELSE acc + next)

mulScaled(a, b) == ((a \div 1000) * b) \div 1000 + ((a % 1000) * b) \div Scale

\* exp(-n / ScoreUnit) * Scale
expNeg(n) ==
  LET whole == n \div ScoreUnit
      part == expSeries(n % ScoreUnit, 1, Scale, Scale)
  IN IF whole = 0 THEN part ELSE mulScaled(part, ExpNegWhole[whole])

\* exp(weight), in units of 1 / (Scale * CountUnit)
expWeight(e, G) ==
  (G * (Scale + expNeg(e.count * ScoreUnit - e.score)) * CountUnit) \div e.count

\* sortBy(weight, entries): a stable sort, smallest weight first
RECURSIVE insertByWeight(_, _)
insertByWeight(e, s) ==
  IF s = <<>> THEN <<e>>
  ELSE IF Head(s).weight <= e.weight
       THEN <<Head(s)>> \o insertByWeight(e, Tail(s))
       ELSE <<e>> \o s

RECURSIVE sortByWeight(_)
sortByWeight(s) ==
  IF s = <<>> THEN <<>>
  ELSE LET n == Len(s) IN insertByWeight(s[n], sortByWeight(SubSeq(s, 1, n - 1)))

mergeHints(gs, lim) ==
  LET scores == scoreGroups(gs, <<>>)
      weighted == [k \in 1..Len(scores) |->
                     [hint |-> scores[k].hint, weight |-> expWeight(scores[k], Len(gs))]]
      sorted == sortByWeight(weighted)
      n == IF Len(sorted) < orDefault(lim) THEN Len(sorted) ELSE orDefault(lim)
  IN [k \in 1..n |-> sorted[k].hint]

(***************************************************************************)
(* The hint generators, as callers use them: candidate lists are collected *)
(* and then handed to selectHints, either one after the other (yield* of   *)
(* each list, as getEventHints or getParentHints do) or merged by          *)
(* mergeHints first (getPublishHints, getInboxHints).                      *)
(***************************************************************************)
CandidateLists == {<<>>} \cup Batches(Advertised, MaxHints)

RECURSIVE concatAll(_)
concatAll(gs) == IF gs = <<>> THEN <<>> ELSE Head(gs) \o concatAll(Tail(gs))

\* no FeedLoader is at work
FeedIdle ==
  /\ opts = [shouldDefer |-> FALSE, shouldListen |-> FALSE,
             shouldHideReplies |-> FALSE, shouldLoadParents |-> FALSE]
  /\ stopped = FALSE
  /\ subs = <<>>
  /\ opened = {}
  /\ buffer = <<>>
  /\ notes = <<>>
  /\ parents = {}
  /\ replies = [i \in Ids |-> <<>>]
  /\ deferred = <<>>
  /\ timers = <<>>
  /\ loading = <<>>
  /\ nLoads = 0
  /\ hung = FALSE
  /\ history = {}

InitHints ==
  /\ FeedIdle
  /\ groups = <<>>
  /\ quality \in QualityMaps
  /\ userRelays \in UserRelayLists
  /\ called = "none"
  /\ limit = 0
  /\ hints = <<>>
  /\ result = <<>>

\* a caller collects one more candidate list
AddGroup ==
  /\ called = "none"
  /\ Len(groups) < MaxGroups
  /\ \E g \in CandidateLists : groups' = Append(groups, g)
  /\ UNCHANGED <<feedVars, quality, userRelays, called, limit, hints, result>>

\* HintSelector.getHints with a generator that yields the lists in turn
GetHints ==
  /\ called = "none"
  /\ \E k \in 0..MaxLimit :
       /\ limit' = k
       /\ hints' = concatAll(groups)
       /\ result' = selectHints(concatAll(groups), k)
  /\ called' = "chain"
  /\ UNCHANGED <<feedVars, groups, quality, userRelays>>

\* HintSelector.getHints with a generator that yields mergeHints(lists)
GetMergedHints ==
  /\ called = "none"
  /\ \E k \in 0..MaxLimit :
       /\ limit' = k
       /\ hints' = mergeHints(groups, 0)
       /\ result' = selectHints(mergeHints(groups, 0), k)
  /\ called' = "merge"
  /\ UNCHANGED <<feedVars, groups, quality, userRelays>>

NextHints ==
  \/ AddGroup
  \/ GetHints
  \/ GetMergedHints

SpecHints == InitHints /\ [][NextHints]_vars


(***************************************************************************)
(* Steps, as the properties below recognise them.                           *)
(***************************************************************************)
\* a suspended load() resumes (only Load shortens loading)
LoadStep == loading # <<>> /\ loading' = Tail(loading)
\* loadBuffer() runs on a buffer that holds something (only LoadBuffer empties it)
LoadBufferStep == buffer # <<>> /\ buffer' = <<>>
\* a timer fires (only Timer takes a timer away)
TimerStep == Len(timers') = Len(timers) - 1
FiredTimer == timers[CHOOSE i \in 1..Len(timers) : TimerDue(i)]

sortedDesc(s) == \A i, j \in 1..Len(s) : i < j => created_at(s[i]) >= created_at(s[j])
noDuplicates(s) == \A i, j \in 1..Len(s) : i # j => s[i] # s[j]

(***************************************************************************)
(* C1: once stop() has been called, a later load(n) or loadBuffer() is a   *)
(* no-op: the feed is unchanged and no handle is opened or tracked.        *)
(***************************************************************************)
C1_LoadAfterStopIsNoOp ==
  [][ ((LoadStep /\ Head(loading).afterStop) \/ (stopped /\ LoadBufferStep))
        => (notes' = notes /\ subs' = subs /\ opened' = opened) ]_vars

(***************************************************************************)
(* C2: a deferral timer that fires after stop() discards its work: the     *)
(* feed, the reply lists and every other piece of feed state stay as they  *)
(* were.                                                                   *)
(***************************************************************************)
C2_TimerAfterStopDiscards ==
  [][ (stopped /\ TimerStep)
        => UNCHANGED <<notes, replies, parents, buffer, deferred, hung>> ]_vars

(***************************************************************************)
(* C3: the whole top-level feed is sorted descending by created_at in      *)
(* every state.                                                            *)
(***************************************************************************)
C3_FeedSortedDescending == sortedDesc(notes)

(***************************************************************************)
(* C4: no event id appears twice in the top-level feed.                    *)
(***************************************************************************)
C4_NoDuplicateIds == noDuplicates(notes)

\* the commit just made has had two events resolve to one ancestor that was
\* already in the feed, and the feed holds several entries
C4_Witness ==
  /\ {"seen", "twice"} \subseteq history
  /\ Len(notes) >= 2

(***************************************************************************)
(* C5: no event of a reaction kind is a top-level feed entry.              *)
(***************************************************************************)
C5_NoReactionTopLevel == \A i \in 1..Len(notes) : kind(notes[i]) \notin reactionKinds

\* the commit just made held a reaction and an event whose top-most resolved
\* ancestor is a reaction, and the feed is not empty
C5_Witness ==
  /\ {"reaction", "ancestor"} \subseteq history
  /\ notes # <<>>

(***************************************************************************)
(* C6: with deferred ordering and parent resolution on, a load that pulls  *)
(* B (no parent reference) and A (parent P not in the side map) commits B  *)
(* and not A; A stays out of the feed until P resolves or the orphan timer *)
(* fires; when the timer fires A appears, as a reply under P if P is then  *)
(* in the side map and as a top-level entry otherwise.  B is taken to be   *)
(* what the scenario means: a recent event that is not a reaction; A a     *)
(* note.                                                                   *)
(***************************************************************************)
C6_LoadCommitsBNotA ==
  (opts.shouldDefer /\ opts.shouldLoadParents /\ ~opts.shouldHideReplies /\ loading # <<>>)
    => \A t \in 0..MaxDrift, taken \in Batches(Historical, MaxTake) :
         \A A, B \in Range(taken) :
           ( /\ findReplyId(B) = 0 /\ ~isAncient(B, t) /\ kind(B) \notin reactionKinds
             /\ isOrphan(A) /\ kind(A) \in noteKinds )
           => LET p == loadPasses(taken, t)
                  r == addToFeed(p.commit)
              IN /\ ~r.hung
                 /\ B \in Range(r.notes)
                 /\ A \in Range(p.orphans)
                 /\ (A \notin Range(notes) => A \notin Range(r.notes))

C6_AWaits ==
  \A i \in 1..Len(timers) : \A A \in Range(timers[i].evs) :
    (timers[i].why = "orphans" /\ A \notin Range(notes) /\ A \in Range(notes'))
      => (TimerStep \/ findReplyId(A) \in parents)

C6_TimerPlacesA ==
  (TimerStep /\ FiredTimer.why = "orphans")
    => /\ ~hung'
       /\ \A A \in Range(FiredTimer.evs) :
            kind(A) \in noteKinds
              => IF findReplyId(A) \in parents
                 THEN A \in Range(replies'[findReplyId(A)])
                 ELSE A \in Range(notes')

C6_OrphanDeferral == [][ C6_LoadCommitsBNotA /\ C6_AWaits /\ C6_TimerPlacesA ]_vars

(***************************************************************************)
(* C7: an event older than now minus the filter's time span is committed   *)
(* when its 4s timer fires, and is then placed where its created_at puts   *)
(* it among all the entries the feed holds: nothing before it is older,    *)
(* nothing after it is newer.                                              *)
(***************************************************************************)
placedByCreatedAt(x, s) ==
  \A i, j \in 1..Len(s) :
    /\ (i < j /\ s[j] = x) => created_at(s[i]) >= created_at(x)
    /\ (i < j /\ s[i] = x) => created_at(x) >= created_at(s[j])

C7_AncientPlacedByCreatedAt ==
  [][ (TimerStep /\ FiredTimer.why = "ancient" /\ ~hung')
        => \A x \in Range(notes') \ Range(notes) : placedByCreatedAt(x, notes') ]_vars

(***************************************************************************)
(* C8: stop() closes every tracked handle and sets the stopped flag, which *)
(* never becomes false again; a second stop() changes no state and closes  *)
(* nothing further.                                                        *)
(***************************************************************************)
C8_StopIdempotent ==
  /\ [][ (~stopped /\ stopped') => opened' \cap Range(subs) = {} ]_vars
  /\ [][ stopped => stopped' ]_vars
  /\ []("restop" \notin history)

(***************************************************************************)
(* C9: for any candidate lists and any limit k >= 1, merging them with     *)
(* mergeHints and selecting with selectHints(k) returns at most k urls,    *)
(* all distinct, every one of them shareable, the urls taken from the      *)
(* fallback sources included.                                              *)
(***************************************************************************)
C9_MergedSelectionBounded ==
  (called = "merge" /\ limit >= 1)
    => /\ Len(result) <= limit
       /\ noDuplicates(result)
       /\ \A i \in 1..Len(result) : result[i] \in ShareableUrls

\* the merged candidates held a url that is not shareable, and the result
\* was filled up to the limit from the fallback sources
C9_Witness ==
  /\ called = "merge" /\ limit >= 1
  /\ \E i \in 1..Len(hints) : hints[i] \notin ShareableUrls
  /\ Len(result) = limit
  /\ \E i \in 1..Len(result) : result[i] \notin Range(hints)

(***************************************************************************)
(* C10: in the result of selectHints every healthy url precedes every      *)
(* low-quality url (quality below 0.6), whatever their order among the     *)
(* candidates, and a low-quality url is returned only when fewer than      *)
(* limit distinct healthy shareable urls were there to take.  The count is *)
(* taken over the whole scanned sequence, which holds the candidates: it   *)
(* bounds the count over the candidates alone.                             *)
(***************************************************************************)
scoredLow(url) == url \in DOMAIN quality /\ quality[url] < 6

healthyShareable(s) == {url \in Range(s) : url \in ShareableUrls /\ ~scoredLow(url)}

C10_HealthyBeforeLowQuality ==
  called # "none"
    => /\ \A i, j \in 1..Len(result) :
            (~scoredLow(result[i]) /\ scoredLow(result[j])) => i < j
       /\ (\E i \in 1..Len(result) : scoredLow(result[i]))
            => /\ Cardinality(healthyShareable(chained(hints))) < orDefault(limit)
               /\ Cardinality(healthyShareable(hints)) < orDefault(limit)

\* a low-quality url that came before a healthy one among the scanned urls
\* is returned after it
C10_Witness ==
  /\ called # "none"
  /\ \E i, j \in 1..Len(result) :
       /\ i < j
       /\ ~scoredLow(result[i]) /\ scoredLow(result[j])
       /\ \E a, b \in 1..Len(chained(hints)) :
            a < b /\ chained(hints)[a] = result[j] /\ chained(hints)[b] = result[i]

(***************************************************************************)
(* C11: selectHints returns as many urls as there are to return: the       *)
(* length of the result is the smaller of the limit and the number of      *)
(* distinct shareable urls in the scanned sequence, also when the scan     *)
(* stopped early.                                                          *)
(***************************************************************************)
shareableIn(s) == {url \in Range(s) : url \in ShareableUrls}

C11_ResultLengthIsMin ==
  called # "none"
    => Len(result) = IF Cardinality(shareableIn(chained(hints))) < orDefault(limit)
                     THEN Cardinality(shareableIn(chained(hints)))
                     ELSE orDefault(limit)

\* the scan stopped early (more healthy urls than the limit) with a
\* low-quality url among the scanned ones, and the result is limit long
C11_Witness ==
  /\ called # "none"
  /\ Cardinality(healthyShareable(chained(hints))) > orDefault(limit)
  /\ \E url \in shareableIn(chained(hints)) : scoredLow(url)
  /\ Len(result) = orDefault(limit)

(***************************************************************************)
(* C12: merging two lists of the same length that have the same url at     *)
(* position 0 and hold the other urls in different orders, such as         *)
(* [x, y, z] and [x, z, y], returns that url as the first element.         *)
(***************************************************************************)
C12_TopOfBothRanksFirst ==
  ( /\ called = "merge"
    /\ Len(groups) = 2
    /\ Len(groups[1]) = Len(groups[2])
    /\ groups[1] # <<>>
    /\ groups[1][1] = groups[2][1]
    /\ Range(groups[1]) = Range(groups[2])
    /\ groups[1] # groups[2] )
    => (hints # <<>> /\ hints[1] = groups[1][1])

(***************************************************************************)
(* C13: in mergeHints, for any number of lists, one included, a url that   *)
(* is at position 0 of every list gets a strictly smaller weight, and so   *)
(* sorts earlier, than any url that is in exactly one list.                *)
(***************************************************************************)
\* the exponential of the weight mergeHints gives url
weightIn(gs, url) ==
  LET scores == scoreGroups(gs, <<>>)
      k == CHOOSE k \in 1..Len(scores) : scores[k].hint = url
  IN expWeight(scores[k], Len(gs))

\* the position of url in the whole sorted output
rankIn(gs, url) ==
  LET all == mergeHints(gs, Cardinality(AllUrls))
  IN CHOOSE k \in 1..Len(all) : all[k] = url

topOfEvery(gs, url) ==
  gs # <<>> /\ \A g \in 1..Len(gs) : gs[g] # <<>> /\ gs[g][1] = url

inExactlyOne(gs, url) ==
  Cardinality({g \in 1..Len(gs) : url \in Range(gs[g])}) = 1

C13_TopOfEveryBeatsSingle ==
  called = "merge"
    => \A x, y \in Advertised :
         (x # y /\ topOfEvery(groups, x) /\ inExactlyOne(groups, y))
           => /\ weightIn(groups, x) < weightIn(groups, y)
              /\ rankIn(groups, x) < rankIn(groups, y)

(***************************************************************************)
(* C14: in every reachable state, loadBuffer() on an empty live buffer     *)
(* leaves the feed (entries, order, reply lists) as it is and the buffer   *)
(* empty.  What loadBuffer() does there is addToFeed(buffer), and then     *)
(* the buffer is set to [].                                                *)
(***************************************************************************)
C14_LoadBufferOnEmptyBuffer ==
  (~hung /\ buffer = <<>>)
    => LET r == addToFeed(buffer) IN
       /\ r.notes = notes
       /\ r.rep = replies
       /\ ~r.hung

\* the buffer is empty while the feed holds several entries, one of them a
\* resolved parent with a reply list to keep
C14_Witness ==
  /\ ~hung /\ buffer = <<>>
  /\ Len(notes) >= 2
  /\ \E id \in parents : id \in Range(notes) /\ replies[id] # <<>>

(***************************************************************************)
(* C15: when the delay of a deferred set elapses, its events go through    *)
(* the orphan pass and the ancient pass again before anything is appended  *)
(* to the feed: an event that is still an orphan, or still ancient, when   *)
(* the timer fires is deferred again and not committed.  An event that is  *)
(* ancient at the time of construction is ancient at every later time.     *)
(***************************************************************************)
C15_TimerRunsPassesAgain ==
  [][ TimerStep
        => \A e \in Range(FiredTimer.evs) :
             ((opts.shouldLoadParents /\ isOrphan(e)) \/ isAncient(e, 0))
               => /\ (e \notin Range(notes) => e \notin Range(notes'))
                  /\ \E i \in 1..Len(timers') : e \in Range(timers'[i].evs) ]_vars

(***************************************************************************)
(* C16: a delivery of the live subscription changes the live buffer only   *)
(* (the events that pass discardEvents are appended) and never the feed;   *)
(* what is in the buffer reaches the feed only through loadBuffer(), which *)
(* commits the whole buffer through chunk construction and leaves the      *)
(* buffer empty.  Apart from loadBuffer() only a resuming load and a timer *)
(* commit, and they take their events from the cursor.                     *)
(***************************************************************************)
LiveStep == Len(buffer') > Len(buffer)

C16_LiveOnlyThroughBuffer ==
  [][ /\ LiveStep
        => /\ SubSeq(buffer', 1, Len(buffer)) = buffer
           /\ \A i \in (Len(buffer) + 1)..Len(buffer') :
                discardEvents(<<buffer'[i]>>) # <<>>
           /\ UNCHANGED <<notes, replies, parents, subs, opened, stopped,
                          deferred, timers, loading, hung>>
      /\ (notes' # notes /\ ~LoadStep /\ ~TimerStep)
        => LoadBufferStep
      /\ LoadBufferStep
        => /\ notes' = addToFeed(buffer).notes
           /\ replies' = addToFeed(buffer).rep
           /\ buffer' = <<>> ]_vars

\* no load() was ever called, the buffer is empty and the feed holds an event:
\* it was delivered live and committed by loadBuffer()
C16_Witness ==
  /\ nLoads = 0
  /\ buffer = <<>>
  /\ notes # <<>>
(***************************************************************************)
(* C17: whatever has been committed, no event id appears twice in the      *)
(* reply list of any parent of the side map.                               *)
(***************************************************************************)
C17_NoDuplicateReplies == \A id \in Ids : noDuplicates(replies[id])

\* the commit just made held a reply that an earlier commit had put under
\* its parent, and that parent is shown in the feed with its reply
C17_Witness ==
  /\ "again" \in history
  /\ \E id \in parents : id \in Range(notes) /\ replies[id] # <<>>

(***************************************************************************)
(* C18: when the chunk of a batch is built and an event of the batch has   *)
(* its parent in the side map, neither the event nor any event of its      *)
(* chain below the top-most ancestor is an entry of the chunk; the top-most *)
(* ancestor is the candidate, an entry of the chunk unless the filter      *)
(* drops it; every note-kind event of the chain is in the reply list of    *)
(* its immediate parent.  Resolving a parent into the side map leaves the  *)
(* feed as it is.  Stated for the chunks whose construction returns.       *)
(***************************************************************************)
topOf(e) == chain(e, {})[Len(chain(e, {}))]

C18_Chunk(b) ==
  LET c == buildFeedChunk(b) IN
  ~c.hung =>
    \A i \in 1..Len(b) :
      LET ch == chain(b[i], {}) IN
      findReplyId(b[i]) \in parents =>
        /\ Len(ch) >= 2
        /\ \A j \in 1..(Len(ch) - 1) :
             /\ ch[j] \notin Range(c.chunk)
             /\ findReplyId(ch[j]) = ch[j + 1]
             /\ kind(ch[j]) \in noteKinds => ch[j] \in Range(c.rep[ch[j + 1]])
        /\ (findReplyId(topOf(b[i])) = 0 \/ findReplyId(topOf(b[i])) \notin parents)
        /\ (topOf(b[i]) \notin Range(notes) /\ kind(topOf(b[i])) \notin reactionKinds)
             => topOf(b[i]) \in Range(c.chunk)

C18_RepliesShowUnderTopAncestor ==
  /\ [](\A b \in Batches(Ids, MaxTake) : C18_Chunk(b))
  /\ [][ parents' # parents => notes' = notes ]_vars

\* the commit just made held event 2, a reply to a reaction to note 1, and
\* event 6, a reply to note 1, with both parents resolved: note 1 is the
\* only entry of the feed and no walk has ended at the reaction
C18_Witness ==
  /\ 2 \in Range(replies[3])
  /\ 6 \in Range(replies[1])
  /\ {"twice"} = history
  /\ notes = <<1>>

(***************************************************************************)
(* C19: every handle the transport has handed out and not closed (of the   *)
(* live subscription, of cursor.load, of cursor.take) is in the tracked    *)
(* set; when a handle's close notification runs, exactly that handle       *)
(* leaves the tracked set, no handle is opened, and the feed, the buffer,  *)
(* the side map, the reply lists, the timers and the stopped flag stay as  *)
(* they are.                                                               *)
(***************************************************************************)
\* a handle closes and stop() has not just been called for the first time
CloseStep == stopped' = stopped /\ opened \ opened' # {}

C19_HandlesTrackedCloseRemovesOne ==
  /\ [](opened \subseteq Range(subs))
  /\ [][ opened' \ opened \subseteq Range(subs') ]_vars
  /\ [][ CloseStep =>
           /\ \E h \in Range(subs) :
                /\ subs' = SelectSeq(subs, LAMBDA y : y # h)
                /\ opened' = opened \ {h}
           /\ UNCHANGED <<buffer, notes, parents, replies, deferred, timers, loading,
                          hung, stopped>> ]_vars

\* the handles of the live subscription and of cursor.take are tracked, the
\* one of cursor.load has closed and left the set, stop() has not been
\* called, the feed holds an entry
C19_Witness ==
  /\ ~stopped
  /\ subs = <<LiveSub, TakeSub>>
  /\ opened = {LiveSub, TakeSub}
  /\ notes # <<>>

(***************************************************************************)
(* C20: the construction of a chunk returns, whatever the batch and        *)
(* whatever the side map holds: no commit leaves the thread inside the     *)
(* upward walk.                                                            *)
(***************************************************************************)
C20_ChunkConstructionReturns == ~hung

====
